---------------------------- MODULE Spec2Model ----------------------------
(* tuesdaybot (src/src/main.rs): a chat bot that answers every message      *)
(* mentioning "tues" with the time left until Tuesday, scaled by the unit   *)
(* and the metric prefixes named in the message.                            *)
(*                                                                          *)
(* Text is a sequence of one-character strings, so that substring search,   *)
(* prefix tests, lower-casing and concatenation are computed character by   *)
(* character.  Table indices are zero-based, as in the source.              *)
(*                                                                          *)
(* The f64 multiplier m * 10^p is kept as an exact decimal [c, e] with      *)
(* value c * 10^e and c not divisible by 10; binary rounding of powf and    *)
(* of the product is not represented.  The wall clock has millisecond       *)
(* resolution.                                                              *)
EXTENDS Integers, Sequences, FiniteSets, TLC

-----------------------------------------------------------------------------
(* Bounds of the model *)

\* size of the event thread pool
NumThreads == 2
\* most fragments a generated message text is made of
MaxFrags == 3
\* the clock ranges over the years FirstYear .. FirstYear + NumYears - 1
FirstYear == 2019
NumYears == 8

-----------------------------------------------------------------------------
(* Tables, main.rs lines 11-26 *)

ZeroBased(seq) == [i \in 0..(Len(seq) - 1) |-> seq[i + 1]]

TIME_UNITS ==
    ZeroBased(<< <<"s", "e", "c">>, <<"m", "i", "n">>, <<"h", "o", "u", "r">>, <<" ", "d", "a", "y", "|", "d", "a", "y", "s">>, <<"w", "e", "e", "k">>, <<"y", "e", "a", "r">> >>)

TIME_UNITS_PLURAL ==
    ZeroBased(<< <<"s", "e", "c", "o", "n", "d", "s">>, <<"m", "i", "n", "u", "t", "e", "s">>, <<"h", "o", "u", "r", "s">>, <<"d", "a", "y", "s">>, <<"w", "e", "e", "k", "s">>, <<"y", "e", "a", "r", "s">> >>)

TIME_MULTIPLIERS == ZeroBased(<< 1, 60, 3600, 86400, 604800, 31557600 >>)

DEFAULT_TIME_INDEX == 2

SI_UNITS ==
    ZeroBased(<< <<"y", "o", "c", "t", "o">>, <<"z", "e", "p", "t", "o">>, <<"a", "t", "t", "o">>, <<"f", "e", "m", "t", "o">>, <<"p", "i", "c", "o">>, <<"n", "a", "n", "o">>,
                 <<"m", "i", "c", "r", "o">>, <<"m", "i", "l", "l", "i">>, <<"c", "e", "n", "t", "i">>, <<"d", "e", "c", "i">>, <<"d", "e", "c", "a">>, <<"h", "e", "c", "t", "o">>,
                 <<"k", "i", "l", "o">>, <<"m", "e", "g", "a">>, <<"g", "i", "g", "a">>, <<"t", "e", "r", "a">>, <<"p", "e", "t", "a">>, <<"e", "x", "a">>,
                 <<"z", "e", "t", "t", "a">>, <<"y", "o", "t", "t", "a">> >>)

SI_POWERS ==
    ZeroBased(<< -24, -21, -18, -15, -12, -9, -6, -3, -2, -1,
                 1, 2, 3, 6, 9, 12, 15, 18, 21, 24 >>)

-----------------------------------------------------------------------------
(* Strings *)

UpperCase == <<"A", "B", "C", "D", "E", "F", "G", "H", "I", "J", "K", "L", "M", "N", "O", "P", "Q", "R", "S", "T", "U", "V", "W", "X", "Y", "Z">>
LowerCase == <<"a", "b", "c", "d", "e", "f", "g", "h", "i", "j", "k", "l", "m", "n", "o", "p", "q", "r", "s", "t", "u", "v", "w", "x", "y", "z">>

\* u8::to_ascii_lowercase
ToAsciiLowercase(ch) ==
    IF \E i \in 1..26 : UpperCase[i] = ch
    THEN LowerCase[CHOOSE i \in 1..26 : UpperCase[i] = ch]
    ELSE ch

\* String::make_ascii_lowercase
MakeAsciiLowercase(str) == [i \in 1..Len(str) |-> ToAsciiLowercase(str[i])]

\* str::starts_with
StartsWith(str, prefix) ==
    /\ Len(prefix) <= Len(str)
    /\ SubSeq(str, 1, Len(prefix)) = prefix

\* occurrences of the literal lit in str, as start positions
Occurrences(str, lit) ==
    {i \in 1..(Len(str) - Len(lit) + 1) : SubSeq(str, i, i + Len(lit) - 1) = lit}

\* str::contains
Contains(str, lit) == Occurrences(str, lit) # {}

\* String::split_off(at): the head that stays and the tail that is returned
SplitOff(str, at) ==
    [head |-> SubSeq(str, 1, at), tail |-> SubSeq(str, at + 1, Len(str))]

RECURSIVE Concat(_)
\* the concatenation of a sequence of strings (repeated push_str)
Concat(strs) ==
    IF strs = << >> THEN << >> ELSE Head(strs) \o Concat(Tail(strs))

-----------------------------------------------------------------------------
(* Regular expressions: the patterns of the tables are literals joined by   *)
(* the alternation bar.                                                     *)

RECURSIVE Alternatives(_, _)
\* the literals of a pattern: acc is the literal being read
Alternatives(pattern, acc) ==
    IF pattern = << >> THEN {acc}
    ELSE IF Head(pattern) = "|"
         THEN {acc} \cup Alternatives(Tail(pattern), << >>)
         ELSE Alternatives(Tail(pattern), Append(acc, Head(pattern)))

\* RegexSet::new: one compiled matcher (a set of literals) per pattern
RegexSetNew(patterns) ==
    [i \in DOMAIN patterns |-> Alternatives(patterns[i], << >>)]

\* RegexSet::matches: the indices of the patterns found anywhere in str
Matches(regex, str) ==
    {i \in DOMAIN regex : \E lit \in regex[i] : Contains(str, lit)}

-----------------------------------------------------------------------------
(* Decimal numbers *)

RECURSIVE Decimal(_, _)
\* m * 10^p for m > 0, with the trailing zeros of m moved into the exponent
Decimal(m, p) ==
    IF m % 10 = 0 THEN Decimal(m \div 10, p + 1) ELSE [c |-> m, e |-> p]

RECURSIVE SumOver(_, _)
\* the sum of f[i] over the indices i of the set idx
SumOver(f, idx) ==
    IF idx = {} THEN 0
    ELSE LET i == CHOOSE j \in idx : TRUE
         IN  f[i] + SumOver(f, idx \ {i})

Max(idx) == CHOOSE i \in idx : \A j \in idx : j <= i
Min(idx) == CHOOSE i \in idx : \A j \in idx : i <= j

RECURSIVE Ascending(_)
\* the members of a set of numbers in increasing order (SetMatches::iter)
Ascending(idx) ==
    IF idx = {} THEN << >>
    ELSE << Min(idx) >> \o Ascending(idx \ {Min(idx)})

RECURSIVE Descending(_)
Descending(idx) ==
    IF idx = {} THEN << >>
    ELSE << Max(idx) >> \o Descending(idx \ {Max(idx)})

-----------------------------------------------------------------------------
(* find_multiplier_from, main.rs lines 118-145 *)

TimeIndexFirst(time_matches) ==
    IF time_matches = {} THEN DEFAULT_TIME_INDEX ELSE Min(time_matches)

TimeIndexNoDefault(time_matches) ==
    IF time_matches = {} THEN 0 ELSE Max(time_matches)

\* lines 128-131: time_matches.iter().next_back(), or the default
TimeIndex(time_matches) ==
    IF time_matches = {} THEN DEFAULT_TIME_INDEX ELSE Max(time_matches)

SiPowerPerOccurrence(si_regex, str) ==
    3 + SumOver([i \in DOMAIN si_regex |->
                    SI_POWERS[i] * Cardinality(UNION {Occurrences(str, lit) : lit \in si_regex[i]})],
                Matches(si_regex, str))

SiPowerNoBase(si_regex, str) == SumOver(SI_POWERS, Matches(si_regex, str))

\* lines 134-139: si_power starts at 3 and takes each matched power once
SiPower(si_regex, str) == 3 + SumOver(SI_POWERS, Matches(si_regex, str))

UnitStringReversed(si_matches, time_index) ==
    Concat([k \in 1..Cardinality(si_matches) |-> SI_UNITS[Descending(si_matches)[k]]])
        \o TIME_UNITS_PLURAL[time_index]

\* lines 135-140: the matched prefixes in table order, then the plural
UnitString(si_matches, time_index) ==
    Concat([k \in 1..Cardinality(si_matches) |-> SI_UNITS[Ascending(si_matches)[k]]])
        \o TIME_UNITS_PLURAL[time_index]

\* lines 124-144: the whole function on an initialised cache
FindMultiplier(regex_cache, str) ==
    LET time_matches == Matches(regex_cache.time_regex, str)
        si_matches   == Matches(regex_cache.si_regex, str)
        time_index   == TimeIndex(time_matches)
        si_power     == SiPower(regex_cache.si_regex, str)
    IN  [time_index  |-> time_index,
         si_matches  |-> si_matches,
         si_power    |-> si_power,
         multiplier  |-> Decimal(TIME_MULTIPLIERS[time_index], si_power),
         unit_string |-> UnitString(si_matches, time_index)]

-----------------------------------------------------------------------------
(* Dates (chrono::NaiveDate): a year and an ordinal day; weekdays are       *)
(* numbered from Monday = 0.                                                *)

Mon == 0
Tue == 1
Wed == 2
Thu == 3
Fri == 4
Sat == 5
Sun == 6

IsLeap(y) == (y % 4 = 0 /\ y % 100 # 0) \/ y % 400 = 0

DaysInYear(y) == IF IsLeap(y) THEN 366 ELSE 365

\* the weekday of 1 January (Gauss), moved from Sunday = 0 to Monday = 0
WeekdayOfJan1(y) ==
    LET r == (1 + 5 * ((y - 1) % 4) + 4 * ((y - 1) % 100) + 6 * ((y - 1) % 400)) % 7
    IN  (r + 6) % 7

\* Datelike::weekday
Weekday(d) == (WeekdayOfJan1(d.year) + d.ordinal - 1) % 7

NoDate == [year |-> 0, ordinal |-> 0]

\* Datelike::with_ordinal: NoDate stands for None
WithOrdinal(d, ordinal) ==
    IF 1 <= ordinal /\ ordinal <= DaysInYear(d.year)
    THEN [year |-> d.year, ordinal |-> ordinal]
    ELSE NoDate

\* NaiveDate::from_weekday_of_month(year, 1, weekday, n)
FromWeekdayOfJanuary(y, weekday, n) ==
    LET first_to_dow == (7 + weekday - WeekdayOfJan1(y)) % 7
    IN  [year |-> y, ordinal |-> (n - 1) * 7 + first_to_dow + 1]

\* NaiveDate::from_yo
FromYo(y, ordinal) == [year |-> y, ordinal |-> ordinal]

RECURSIVE DayNumber(_)
\* days from 1 January of FirstYear - 1 to the date
DayNumber(d) ==
    IF d.year < FirstYear THEN d.ordinal
    ELSE DaysInYear(d.year - 1) + DayNumber([year |-> d.year - 1, ordinal |-> d.ordinal])

\* signed_duration_since(...).num_milliseconds(): target is at 00:00:00.000
MillisecondsUntil(target, now) ==
    (DayNumber(target) - DayNumber(now)) * (24 * 3600 * 1000) - now.ms

\* lines 57-65
NumDaysIncrement(weekday) ==
    CASE weekday = Mon -> 1
      [] weekday = Tue -> 0
      [] weekday = Wed -> 6
      [] weekday = Thu -> 5
      [] weekday = Fri -> 4
      [] weekday = Sat -> 3
      [] weekday = Sun -> 2

NextTuesdaySecondOfJanuary(now) ==
    LET t == WithOrdinal(now, now.ordinal + NumDaysIncrement(Weekday(now)))
    IN  IF t = NoDate
        THEN FromWeekdayOfJanuary(now.year + 1, Tue, 2)
        ELSE FromYo(t.year, t.ordinal)

\* lines 67-73: the date of the target midnight
NextTuesday(now) ==
    LET t == WithOrdinal(now, now.ordinal + NumDaysIncrement(Weekday(now)))
    IN  IF t = NoDate
        THEN FromWeekdayOfJanuary(now.year + 1, Tue, 1)
        ELSE FromYo(t.year, t.ordinal)

-----------------------------------------------------------------------------
(* The program: main (lines 192-218) and the message callbacks that the     *)
(* client runs on its thread pool (lines 148-179).                          *)

VARIABLES
    pc,        \* where main is
    cache,     \* the RegexKey entry of client.data: Absent or a CustomRegexCache
    inserts,   \* how many times the RegexKey entry was inserted
    everRan,   \* whether a message callback was ever entered
    th         \* the state of each pool thread

vars == << pc, cache, inserts, everRan, th >>

Threads == 1..NumThreads

Absent == [time_regex |-> << >>, si_regex |-> << >>]

NoMsg == [bot |-> FALSE, content |-> << >>, mention_roles |-> << >>]
NoNow == [year |-> 0, ordinal |-> 0, ms |-> 0]
NoFound ==
    [time_index |-> 0, si_matches |-> {}, si_power |-> 0,
     multiplier |-> [c |-> 0, e |-> 0], unit_string |-> << >>]
NoQuotient == [num |-> 0, den |-> [c |-> 0, e |-> 0]]
NoOutput ==
    [kind |-> "none", mention |-> FALSE, adjusted_diff |-> NoQuotient,
     roles |-> << >>, sent |-> FALSE]

Idle ==
    [pc |-> "idle", msg |-> NoMsg, s |-> << >>, now |-> NoNow,
     tuesday |-> NoDate, diffms |-> 0, found |-> NoFound,
     output |-> NoOutput, says |-> 0]

Init ==
    /\ pc = "load_token"
    /\ cache = Absent
    /\ inserts = 0
    /\ everRan = FALSE
    /\ th = [t \in Threads |-> Idle]

\* lines 193-198: the token file is opened and read, or main panics
LoadToken ==
    /\ pc = "load_token"
    /\ \E ok \in BOOLEAN : pc' = IF ok THEN "create_client" ELSE "panicked"
    /\ UNCHANGED << cache, inserts, everRan, th >>

\* lines 203-204: Client::new, or main panics
CreateClient ==
    /\ pc = "create_client"
    /\ \E ok \in BOOLEAN : pc' = IF ok THEN "initialize_regex" ELSE "panicked"
    /\ UNCHANGED << cache, inserts, everRan, th >>

InitializeRegexNoInsert ==
    /\ pc = "initialize_regex"
    /\ \E built \in BOOLEAN : pc' = IF built THEN "start" ELSE "panicked"
    /\ UNCHANGED << cache, inserts, everRan, th >>

\* lines 41-50 and 208: both sets are built (or expect panics) and inserted
InitializeRegex ==
    /\ pc = "initialize_regex"
    /\ \E built \in BOOLEAN :
          IF built
          THEN /\ cache' = [time_regex |-> RegexSetNew(TIME_UNITS),
                            si_regex   |-> RegexSetNew(SI_UNITS)]
               /\ inserts' = inserts + 1
               /\ pc' = "start"
          ELSE /\ pc' = "panicked"
               /\ UNCHANGED << cache, inserts >>
    /\ UNCHANGED << everRan, th >>

\* line 215: client.start() connects and dispatches events, or returns Err
Start ==
    /\ pc = "start"
    /\ \E ok \in BOOLEAN : pc' = IF ok THEN "running" ELSE "exited"
    /\ UNCHANGED << cache, inserts, everRan, th >>

\* lines 215-218: client.start() returns, main returns, the process ends
Stop ==
    /\ pc = "running"
    /\ pc' = "exited"
    /\ th' = [t \in Threads |-> Idle]
    /\ UNCHANGED << cache, inserts, everRan >>

\* the client hands an inbound message to a free pool thread
Receive(t, Msgs) ==
    /\ pc = "running"
    /\ th[t].pc = "idle"
    /\ \E m \in Msgs : th' = [th EXCEPT ![t] = [Idle EXCEPT !.pc = "message", !.msg = m]]
    /\ everRan' = TRUE
    /\ UNCHANGED << pc, cache, inserts >>

\* lines 164-171: the reply of the role command
RoleReply(m, ok) ==
    [kind |-> "roles", mention |-> FALSE, adjusted_diff |-> NoQuotient,
     roles |-> m.mention_roles, sent |-> ok]

MessageTuesFirst(t) ==
    /\ pc = "running"
    /\ th[t].pc = "message"
    /\ LET m == th[t].msg
           s == MakeAsciiLowercase(m.content)
       IN  th' = [th EXCEPT ![t] =
                    IF Contains(s, <<"t", "u", "e", "s">>)
                    THEN [@ EXCEPT !.pc = "handle_tuesday", !.s = s]
                    ELSE [@ EXCEPT !.pc = "done", !.s = s]]
    /\ UNCHANGED << pc, cache, inserts, everRan >>

\* lines 154-179: Handler::message up to the call of handle_tuesday
Message(t) ==
    /\ pc = "running"
    /\ th[t].pc = "message"
    /\ LET m == th[t].msg
           s == MakeAsciiLowercase(m.content)
       IN  \E ok \in BOOLEAN :
             th' = [th EXCEPT ![t] =
                IF m.bot
                THEN [@ EXCEPT !.pc = "done"]
                ELSE IF StartsWith(s, <<"t", "u", "e", "!">>)
                THEN LET parts == SplitOff(s, 4)
                     IN  IF StartsWith(parts.tail, <<"r", "o", "l", "e">>)
                         THEN [@ EXCEPT !.pc = "done", !.s = parts.head,
                                        !.output = RoleReply(m, ok),
                                        !.says = @ + 1]
                         ELSE [@ EXCEPT !.pc = "done", !.s = parts.head]
                ELSE IF Contains(s, <<"t", "u", "e", "s">>)
                THEN [@ EXCEPT !.pc = "handle_tuesday", !.s = s]
                ELSE [@ EXCEPT !.pc = "done", !.s = s]]
    /\ UNCHANGED << pc, cache, inserts, everRan >>

\* lines 52-76: the clock is read, the target and the difference computed
HandleTuesday(t, Nows) ==
    /\ pc = "running"
    /\ th[t].pc = "handle_tuesday"
    /\ \E now \in Nows :
          LET tuesday == NextTuesday(now)
          IN  th' = [th EXCEPT ![t] =
                        [@ EXCEPT !.pc = "find_multiplier_from",
                                  !.now = now,
                                  !.tuesday = tuesday,
                                  !.diffms = MillisecondsUntil(tuesday, now)]]
    /\ UNCHANGED << pc, cache, inserts, everRan >>

FindMultiplierFromConsuming(t) ==
    /\ pc = "running"
    /\ th[t].pc = "find_multiplier_from"
    /\ IF cache = Absent
       THEN /\ th' = [th EXCEPT ![t] = [@ EXCEPT !.pc = "panicked"]]
            /\ UNCHANGED cache
       ELSE LET found == FindMultiplier(cache, th[t].s)
            IN  /\ th' = [th EXCEPT ![t] =
                            [@ EXCEPT !.pc = "reply", !.found = found]]
                /\ cache' = [cache EXCEPT !.time_regex =
                                [i \in DOMAIN @ |->
                                    IF i = found.time_index THEN {} ELSE @[i]]]
    /\ UNCHANGED << pc, inserts, everRan >>

\* lines 104 and 118-145: the cache is looked up (expect panics when it is
\* absent) and the unit and the multiplier are computed from the text
FindMultiplierFrom(t) ==
    /\ pc = "running"
    /\ th[t].pc = "find_multiplier_from"
    /\ IF cache = Absent
       THEN th' = [th EXCEPT ![t] = [@ EXCEPT !.pc = "panicked"]]
       ELSE th' = [th EXCEPT ![t] =
                     [@ EXCEPT !.pc = "reply",
                               !.found = FindMultiplier(cache, th[t].s)]]
    /\ UNCHANGED << pc, cache, inserts, everRan >>

\* lines 79-107: the text of the countdown; the quotient diffms / multiplier
\* is kept as its numerator and its denominator
CountdownReply(mention, diffms, multiplier, ok) ==
    [kind |-> "countdown", mention |-> mention,
     adjusted_diff |-> [num |-> diffms, den |-> multiplier],
     roles |-> << >>, sent |-> ok]

\* lines 79-102 and 106-115: the role mention is decided from the client's
\* role cache, the count is the difference over the multiplier, and the
\* reply is sent once; a failed send is only logged
Reply(t) ==
    /\ pc = "running"
    /\ th[t].pc = "reply"
    /\ \E mention \in BOOLEAN, ok \in BOOLEAN :
          th' = [th EXCEPT ![t] =
                    [@ EXCEPT !.pc = "done",
                              !.output = CountdownReply(mention, th[t].diffms,
                                                        th[t].found.multiplier, ok),
                              !.says = @ + 1]]
    /\ UNCHANGED << pc, cache, inserts, everRan >>

\* the callback returns and the thread goes back to the pool
Return(t) ==
    /\ pc = "running"
    /\ th[t].pc = "done"
    /\ th' = [th EXCEPT ![t] = Idle]
    /\ UNCHANGED << pc, cache, inserts, everRan >>

Main == LoadToken \/ CreateClient \/ InitializeRegex \/ Start \/ Stop

Callback(t, Msgs, Nows) ==
    \/ Receive(t, Msgs)
    \/ Message(t)
    \/ HandleTuesday(t, Nows)
    \/ FindMultiplierFrom(t)
    \/ Reply(t)
    \/ Return(t)

-----------------------------------------------------------------------------
(* Inputs *)

Msg(bot, content, roles) ==
    [bot |-> bot, content |-> content, mention_roles |-> roles]

\* messages that take every branch of Handler::message
DispatchMsgs ==
    { Msg(TRUE,  <<"t", "u", "e", "s", "d", "a", "y">>, << >>),
      Msg(FALSE, <<"h", "e", "l", "l", "o">>, << >>),
      Msg(FALSE, <<"T", "U", "E", "!", "r", "o", "l", "e">>, << "role1" >>),
      Msg(FALSE, <<"t", "u", "e", "!", "r", "o", "l", "e", "s", " ", "t", "u", "e", "s">>, << >>),
      Msg(FALSE, <<"T", "u", "e", "!", "t", "u", "e", "s">>, << >>),
      Msg(FALSE, <<"t", "u", "e">>, << >>),
      Msg(FALSE, <<"T", "u", "e", "s", "d", "a", "y">>, << >>),
      Msg(FALSE, <<"k", "i", "l", "o", " ", "t", "u", "e", "s", "d", "a", "y", "s">>, << >>) }

Clock(y, o, ms) == [year |-> y, ordinal |-> o, ms |-> ms]

Noon == 12 * 3600 * 1000

Years == FirstYear..(FirstYear + NumYears - 1)

\* every day of the years of the model, at midnight, at noon and at the
\* last millisecond of the day
AllNows ==
    {Clock(y, o, ms) : y \in Years, o \in 1..366, ms \in {0, Noon, 24 * 3600 * 1000 - 1}}
        \ {Clock(y, 366, ms) : y \in {z \in Years : ~IsLeap(z)}, ms \in {0, Noon, 24 * 3600 * 1000 - 1}}

\* a Tuesday at noon and the last day of a year
FewNows == {n \in AllNows : n.year = FirstYear /\ n.ordinal \in {1, 365} /\ n.ms = Noon}

Fragments ==
    { <<"t", "u", "e", "s">>, <<"d", "a", "y">>, <<"d", "a", "y", "s">>, <<" ">>, <<"s", "e", "c">>, <<"m", "i", "n">>, <<"h", "o", "u", "r">>, <<"w", "e", "e", "k">>, <<"y", "e", "a", "r">>,
      <<"m", "i", "l", "l", "i">>, <<"k", "i", "l", "o">>, <<"y", "o", "t", "t", "a">> }

RECURSIVE TextsOf(_)
\* the texts made of at most n fragments
TextsOf(n) ==
    IF n = 0 THEN {<< >>}
    ELSE LET shorter == TextsOf(n - 1)
         IN  shorter \cup {p \o f : p \in shorter, f \in Fragments}

AllTexts == TextsOf(MaxFrags)

TextMsgs == DispatchMsgs \cup {Msg(FALSE, x, << >>) : x \in AllTexts}

-----------------------------------------------------------------------------
(* Specifications *)

\* the whole pool, on the dispatch messages and a few clock readings
Next == Main \/ \E t \in Threads : Callback(t, DispatchMsgs, FewNows)

Spec == Init /\ [][Next]_vars

\* one callback at a time, on every generated text
NextText == Main \/ Callback(1, TextMsgs, {Clock(FirstYear, 1, Noon)})

SpecText == Init /\ [][NextText]_vars

\* one callback at a time, on every clock reading
NextClock == Main \/ Callback(1, DispatchMsgs, AllNows)

SpecClock == Init /\ [][NextClock]_vars

-----------------------------------------------------------------------------
(* Properties *)

\* find_multiplier_from has returned to thread t
Returned(t) == th[t].pc \in {"reply", "done"} /\ th[t].found # NoFound

\* handle_tuesday has read the clock in thread t
ClockRead(t) == th[t].now # NoNow

\* the duration aliases as plain substrings
NamedAliases == ZeroBased(<< <<"s", "e", "c">>, <<"m", "i", "n">>, <<"h", "o", "u", "r">>, <<"d", "a", "y">>, <<"w", "e", "e", "k">>, <<"y", "e", "a", "r">> >>)

\* the duration aliases as the patterns match them: a day is " day" or "days"
PatternAliases ==
    ZeroBased(<< {<<"s", "e", "c">>}, {<<"m", "i", "n">>}, {<<"h", "o", "u", "r">>}, {<<" ", "d", "a", "y">>, <<"d", "a", "y", "s">>}, {<<"w", "e", "e", "k">>}, {<<"y", "e", "a", "r">>} >>)

PluralNames ==
    ZeroBased(<< <<"s", "e", "c", "o", "n", "d", "s">>, <<"m", "i", "n", "u", "t", "e", "s">>, <<"h", "o", "u", "r", "s">>, <<"d", "a", "y", "s">>, <<"w", "e", "e", "k", "s">>, <<"y", "e", "a", "r", "s">> >>)

SecondsPer == ZeroBased(<< 1, 60, 3600, 86400, 604800, 31557600 >>)

NamedIn(str) == {i \in 0..5 : Contains(str, NamedAliases[i])}

PatternsIn(str) == {i \in 0..5 : \E lit \in PatternAliases[i] : Contains(str, lit)}

MetricIn(str) == {i \in 0..19 : Contains(str, SI_UNITS[i])}

EndsWith(str, suffix) ==
    /\ Len(suffix) <= Len(str)
    /\ SubSeq(str, Len(str) - Len(suffix) + 1, Len(str)) = suffix

RECURSIVE PrefixLabel(_, _)
\* the metric aliases found in str, from table entry i on, in table order
PrefixLabel(str, i) ==
    IF i > 19 THEN << >>
    ELSE (IF Contains(str, SI_UNITS[i]) THEN SI_UNITS[i] ELSE << >>)
            \o PrefixLabel(str, i + 1)

RECURSIVE PowerSum(_, _)
\* the sum of the powers of the metric aliases found in str, from entry i on
PowerSum(str, i) ==
    IF i > 19 THEN 0
    ELSE (IF Contains(str, SI_UNITS[i]) THEN SI_POWERS[i] ELSE 0) + PowerSum(str, i + 1)

\* the decimal d times 10^k
TimesPowerOfTen(d, k) == [c |-> d.c, e |-> d.e + k]

\* the weekday offsets of the countdown
Offset(weekday) ==
    ZeroBased(<< 1, 0, 6, 5, 4, 3, 2 >>)[weekday]

\* C1: whenever now is a Tuesday at 12:00:00.000, the target is the Tuesday
\* seven days after now's date and the difference is exactly 561600000 ms.
C1_NoonTuesdayIsAWeekAway ==
    \A t \in Threads :
        (ClockRead(t) /\ Weekday(th[t].now) = Tue /\ th[t].now.ms = Noon)
            => /\ DayNumber(th[t].tuesday) = DayNumber(th[t].now) + 7
               /\ th[t].diffms = 561600000

C3_MinAndDayYieldDays ==
    \A t \in Threads :
        (Returned(t) /\ Contains(th[t].s, <<"m", "i", "n">>) /\ Contains(th[t].s, <<"d", "a", "y">>))
            => /\ EndsWith(th[t].found.unit_string, <<"d", "a", "y", "s">>)
               /\ th[t].found.multiplier = Decimal(86400, th[t].found.si_power)

\* C3 (amended): when more than one duration pattern matches, the unit is
\* the match with the largest table index; a text matching "min" and the day
\* pattern (" day" or "days"), and neither "week" nor "year", yields "days".
C3_LargestMatchWins ==
    \A t \in Threads :
        (Returned(t) /\ Cardinality(PatternsIn(th[t].s)) > 1) =>
            LET matched == PatternsIn(th[t].s)
                found == th[t].found
            IN  /\ \A i \in matched : i <= found.time_index
                /\ found.time_index \in matched
                /\ EndsWith(found.unit_string, PluralNames[found.time_index])
                /\ found.multiplier = Decimal(SecondsPer[found.time_index], found.si_power)
                /\ ({1, 3} \subseteq matched /\ matched \cap {4, 5} = {})
                      => /\ EndsWith(found.unit_string, <<"d", "a", "y", "s">>)
                         /\ found.multiplier = Decimal(86400, found.si_power)

\* C3 witness: "min" comes after the day pattern in the text, and days win
C3_Witness ==
    \E t \in Threads :
        /\ Returned(t)
        /\ th[t].s = <<"t", "u", "e", "s">> \o <<"d", "a", "y", "s">> \o <<"m", "i", "n">>
        /\ th[t].found.unit_string = <<"d", "a", "y", "s">>

\* C4 (as stated): a text with exactly one of "sec", "min", "hour", "day",
\* "week", "year" as a substring and no metric alias yields that unit's
\* plural name and its seconds multiplier times 1000.
C4_OneNamedAlias ==
    \A t \in Threads : \A i \in 0..5 :
        (Returned(t) /\ NamedIn(th[t].s) = {i} /\ MetricIn(th[t].s) = {})
            => /\ th[t].found.unit_string = PluralNames[i]
               /\ th[t].found.multiplier = Decimal(SecondsPer[i], 3)

\* C4 (amended): a text in which exactly one of the patterns "sec", "min",
\* "hour", " day" or "days", "week", "year" matches and no metric alias
\* occurs yields that unit's plural name and its seconds multiplier times
\* 1000.
C4_OnePatternMatched ==
    \A t \in Threads : \A i \in 0..5 :
        (Returned(t) /\ PatternsIn(th[t].s) = {i} /\ MetricIn(th[t].s) = {})
            => /\ th[t].found.unit_string = PluralNames[i]
               /\ th[t].found.multiplier = Decimal(SecondsPer[i], 3)

\* C4 witness: "tues day" counts in days, 86400 * 1000 ms each
C4_Witness ==
    \E t \in Threads :
        /\ Returned(t)
        /\ th[t].s = <<"t", "u", "e", "s", " ", "d", "a", "y">>
        /\ th[t].found.unit_string = <<"d", "a", "y", "s">>
        /\ th[t].found.multiplier = [c |-> 864, e |-> 5]

\* C5: with one or more metric aliases in the text, the multiplier is the
\* selected unit's seconds times 10^3 times 10^(sum of their powers) and the
\* label is the aliases in table order, whatever their order in the text,
\* followed by the unit's plural name; "milli" and "kilo" cancel.
C5_MetricPrefixes ==
    \A t \in Threads :
        (Returned(t) /\ MetricIn(th[t].s) # {}) =>
            LET found == th[t].found
                unit == IF PatternsIn(th[t].s) = {} THEN 2
                        ELSE CHOOSE i \in PatternsIn(th[t].s) :
                                \A j \in PatternsIn(th[t].s) : j <= i
            IN  /\ found.multiplier =
                      TimesPowerOfTen(Decimal(SecondsPer[unit], 3), PowerSum(th[t].s, 0))
                /\ found.unit_string = PrefixLabel(th[t].s, 0) \o PluralNames[unit]
                /\ MetricIn(th[t].s) = {7, 12}
                      => /\ found.multiplier = Decimal(SecondsPer[unit], 3)
                         /\ found.unit_string = <<"m", "i", "l", "l", "i", "k", "i", "l", "o">> \o PluralNames[unit]

\* C5 witness: "kilo" before "milli" in the text, "millikilohours" in the label
C5_Witness ==
    \E t \in Threads :
        /\ Returned(t)
        /\ th[t].s = <<"k", "i", "l", "o">> \o <<"m", "i", "l", "l", "i">> \o <<"t", "u", "e", "s">>
        /\ th[t].found.unit_string = <<"m", "i", "l", "l", "i", "k", "i", "l", "o", "h", "o", "u", "r", "s">>
        /\ th[t].found.multiplier = [c |-> 36, e |-> 5]

\* C6: a text in which no duration pattern matches and no metric alias
\* occurs yields the default unit: multiplier 3600000 and label "hours".
C6_DefaultIsHours ==
    \A t \in Threads :
        (Returned(t) /\ PatternsIn(th[t].s) = {} /\ MetricIn(th[t].s) = {})
            => /\ th[t].found.multiplier = Decimal(3600000, 0)
               /\ th[t].found.unit_string = <<"h", "o", "u", "r", "s">>

\* C6 witness: "tuesday" alone is counted in hours
C6_Witness ==
    \E t \in Threads :
        /\ Returned(t)
        /\ th[t].s = <<"t", "u", "e", "s", "d", "a", "y">>
        /\ th[t].found.unit_string = <<"h", "o", "u", "r", "s">>

\* the cache as initialize_regex builds it
BuiltCache ==
    [time_regex |-> RegexSetNew(TIME_UNITS), si_regex |-> RegexSetNew(SI_UNITS)]

\* C7: the cache is inserted exactly once, before the client starts and so
\* before any callback runs; the lookup never finds it absent; a failed
\* construction ends the process before any message is processed.
C7_CacheBeforeMessages ==
    /\ inserts <= 1
    /\ (inserts = 0) = (cache = Absent)
    /\ pc \in {"start", "running"} => inserts = 1
    /\ everRan => inserts = 1
    /\ \A t \in Threads :
          /\ th[t].pc # "panicked"
          /\ th[t].pc # "idle" => (pc = "running" /\ cache # Absent /\ inserts = 1)
    /\ pc = "panicked" => (~everRan /\ \A t \in Threads : th[t].pc = "idle")

\* C7 witness: a callback whose lookup found the cache
C7_Witness ==
    \E t \in Threads : Returned(t) /\ inserts = 1 /\ pc = "running"

\* C8: no callback writes the cache, so under every interleaving each call
\* returns what it returns when run alone on its text, and two calls on the
\* same text return the same.
C8_CallsAreIndependent ==
    /\ inserts = 1 => cache = BuiltCache
    /\ \A t \in Threads :
          Returned(t) => th[t].found = FindMultiplier(BuiltCache, th[t].s)
    /\ \A t1 \in Threads, t2 \in Threads :
          (Returned(t1) /\ Returned(t2) /\ th[t1].s = th[t2].s)
              => th[t1].found = th[t2].found

\* C8 witness: two callbacks have the result for the same text at once
C8_Witness ==
    \E t1 \in Threads, t2 \in Threads :
        /\ t1 # t2
        /\ th[t1].pc = "reply" /\ th[t2].pc = "reply"
        /\ th[t1].s = th[t2].s
        /\ th[t1].found.unit_string = <<"k", "i", "l", "o", "d", "a", "y", "s">>

\* C9: a message causes at most one reply attempt and a bot's message none;
\* a message whose lowercased content starts with "tue!" never starts the
\* countdown and gets the role echo exactly when "role" follows "tue!"; any
\* other message starts the countdown exactly when it contains "tues".
C9_Dispatch ==
    \A t \in Threads :
        LET m == th[t].msg
            low == MakeAsciiLowercase(m.content)
            command == StartsWith(low, <<"t", "u", "e", "!">>)
            counting == th[t].pc \in {"handle_tuesday", "find_multiplier_from", "reply"}
                            \/ th[t].output.kind = "countdown"
        IN  /\ th[t].says <= 1
            /\ th[t].says = (IF th[t].output.kind = "none" THEN 0 ELSE 1)
            /\ counting => (~m.bot /\ ~command /\ Contains(low, <<"t", "u", "e", "s">>))
            /\ th[t].pc = "done" =>
                  /\ m.bot => th[t].says = 0
                  /\ (~m.bot /\ command) =>
                        (th[t].output.kind = "roles"
                            <=> StartsWith(SubSeq(low, 5, Len(low)), <<"r", "o", "l", "e">>))
                  /\ (~m.bot /\ ~command) =>
                        /\ th[t].output.kind # "roles"
                        /\ th[t].output.kind = "countdown" <=> Contains(low, <<"t", "u", "e", "s">>)

\* C9 witness: "Tue!tues" was handled without any reply
C9_Witness ==
    \E t \in Threads :
        /\ th[t].pc = "done"
        /\ th[t].msg.content = <<"T", "u", "e", "!", "t", "u", "e", "s">>
        /\ th[t].says = 0

\* C10: each metric alias adds its power once however often it occurs, so
\* si_power is 3 plus the powers of the aliases present, lies in -108..114,
\* and the multiplier, the divisor of the difference, is strictly positive.
C10_BoundedPower ==
    \A t \in Threads :
        /\ Returned(t) =>
              /\ th[t].found.si_power = 3 + PowerSum(th[t].s, 0)
              /\ th[t].found.si_power \in -108..114
              /\ th[t].found.multiplier.c > 0
        /\ th[t].output.kind = "countdown" => th[t].output.adjusted_diff.den.c > 0

\* C10 witness: "kilo" twice in the text counts once
C10_Witness ==
    \E t \in Threads :
        /\ th[t].output.kind = "countdown"
        /\ th[t].s = <<"k", "i", "l", "o">> \o <<"k", "i", "l", "o">> \o <<"t", "u", "e", "s">>
        /\ th[t].found.si_power = 6

=============================================================================
